---------------------------- MODULE Spec2Model ----------------------------
(***************************************************************************)
(* Explicit free list allocator (LIFO doubly linked list, first fit,      *)
(* boundary tag coalescing) of src/unnamed/part_000.                      *)
(*                                                                         *)
(* The heap is a map from byte addresses of 4-byte words to word values.  *)
(* A word that was handed out by the provider and never written is absent *)
(* from the map (its content is indeterminate).  A size_t or pointer value *)
(* u in 0..2^32-1 is held as the integer congruent to u modulo 2^32 in    *)
(* -2^31..2^31-1 (two's complement), so 0xFFFFFFFF is -1; the operators   *)
(* ADD, SUB, MUL, UDIV, ULT, ULE compute the unsigned 32-bit results.     *)
(***************************************************************************)
EXTENDS Integers, Sequences, FiniteSets, TLC

---------------------------------------------------------------------------
(* Program constants *)

WSIZE == 4
DSIZE == 8
CHUNKSIZE == 4096
OVERHEAD == 8
NULL == 0
\* (void *)-1, the value extend_heap compares the provider's result with
SBRK_FAILED == -1
\* address of the first heap byte, "Begin heap 1: f6a10008"
mem_start_brk == -157220856

---------------------------------------------------------------------------
(* Bounds of the model *)

\* capacity of the provider in bytes
MAX_HEAP == 10000
\* number of operations of the caller in a run
MaxOps == 4
\* number of words a caller stores into payloads in a run
MaxWrites == 1

---------------------------------------------------------------------------
(* size_t arithmetic, 32 bits *)

MinInt == -2147483647 - 1
MaxInt == -(MinInt + 1)

ADD(a, b) ==
  IF a >= 0 /\ b >= 0
  THEN IF a > MaxInt - b THEN ((a + MinInt) + b) + MinInt ELSE a + b
  ELSE IF a < 0 /\ b < 0
       THEN IF a < MinInt - b THEN ((a - MinInt) + b) - MinInt ELSE a + b
       ELSE a + b

NEG(b) == IF b = MinInt THEN MinInt ELSE 0 - b

SUB(a, b) == ADD(a, NEG(b))

\* unsigned a < b
ULT(a, b) == IF (a >= 0) = (b >= 0) THEN a < b ELSE b < 0

\* unsigned a <= b
ULE(a, b) == a = b \/ ULT(a, b)

\* unsigned a / d, d a power of two in 2..2^30
UDIV(a, d) ==
  IF a >= 0 THEN a \div d
  ELSE ((MaxInt \div d) + 1) + ((a - MinInt) \div d)

\* unsigned a % d, d a power of two
UMOD(a, d) == a % d

\* a * d modulo 2^32, d a power of two, 0 <= a <= 2^32 / d
MUL(a, d) ==
  IF a <= MaxInt \div d THEN a * d
  ELSE (a - 2 * ((MaxInt \div d) + 1)) * d

MAX(x, y) == IF ULT(y, x) THEN x ELSE y

\* (size) | (alloc), alloc in {0, 1}
PACK(size, alloc) == IF size % 2 = 1 THEN size ELSE size + alloc

\* word & ~0x7
SizeBits(word) == word - (word % 8)

\* word & 0x1
AllocBit(word) == word % 2

---------------------------------------------------------------------------
(* The heap as the allocator's functions see it: a record                 *)
(*   mem                heap words written so far                          *)
(*   mem_brk            first byte after the heap                          *)
(*   mem_max_addr       first byte the provider cannot hand out            *)
(*   p_heap_list, mp_firstfreeblock, m_freecount   the globals            *)
(*   status             "ok", or how the execution left defined behaviour *)
(*   wr                 addresses the allocator wrote in this operation   *)

Fault(s, why) == IF s.status = "ok" THEN [s EXCEPT !.status = why] ELSE s

InHeap(s, p) ==
  /\ p % WSIZE = 0
  /\ LET off == SUB(p, mem_start_brk)
     IN  off >= 0 /\ off < SUB(s.mem_brk, mem_start_brk)

Readable(s, p) == p \in DOMAIN s.mem

Store(m, p, val) == (p :> val) @@ m

\* *(size_t *)(p); an unreadable word is reported by the reader's Reads check
GET(s, p) == IF p \in DOMAIN s.mem THEN s.mem[p] ELSE 0

PUT(s, p, val) ==
  IF s.status # "ok" THEN s
  ELSE IF ~InHeap(s, p) THEN Fault(s, "undefined")
  ELSE [s EXCEPT !.mem = Store(s.mem, p, val), !.wr = @ \cup {p},
                 !.log = Append(@, [op |-> "PUT", at |-> {p}])]

\* the function leaves defined behaviour when it reads a word never written
Reads(s, ps) == IF ps \subseteq DOMAIN s.mem THEN s ELSE Fault(s, "undefined")

\* the order of events inside one call: a step op at the addresses at
Note(s, op, at) ==
  IF s.status # "ok" THEN s
  ELSE [s EXCEPT !.log = Append(@, [op |-> op, at |-> at])]

\* words read by the list and merge functions, kept in the order of events
Fetch(s, ps) == Note(Reads(s, ps), "GET", ps)

GET_SIZE(s, p) == SizeBits(GET(s, p))
GET_ALLOC(s, p) == AllocBit(GET(s, p))

HDRP(block_ptr) == SUB(block_ptr, WSIZE)
FTRP(s, block_ptr) == SUB(ADD(block_ptr, GET_SIZE(s, HDRP(block_ptr))), DSIZE)

NEXT_BLKP(s, block_ptr) == ADD(block_ptr, GET_SIZE(s, SUB(block_ptr, WSIZE)))
PREV_BLKP(s, block_ptr) == SUB(block_ptr, GET_SIZE(s, SUB(block_ptr, DSIZE)))

PRE_PTR(block_ptr) == block_ptr
SUC_PTR(block_ptr) == ADD(block_ptr, WSIZE)

PREV(s, block_ptr) == GET(s, PRE_PTR(block_ptr))
SUCC(s, block_ptr) == GET(s, SUC_PTR(block_ptr))

---------------------------------------------------------------------------
(* The provider *)

\* grow(incr): the old break, or SBRK_FAILED and no change
mem_sbrk(s, incr) ==
  IF incr < 0 \/ SUB(ADD(s.mem_brk, incr), mem_start_brk) >
                 SUB(s.mem_max_addr, mem_start_brk)
  THEN [st |-> Note(s, "mem_sbrk", {incr}), ret |-> SBRK_FAILED]
  ELSE [st |-> [Note(s, "mem_sbrk", {incr}) EXCEPT !.mem_brk = ADD(@, incr)],
        ret |-> s.mem_brk]

---------------------------------------------------------------------------
(* Sequencing: Bind(s, K) continues with K on the state s a statement left *)

Bind(s, K(_)) == K(s)

\* a statement that updates a global runs only in a defined execution
SetFirst(s, block_ptr) ==
  IF s.status # "ok" THEN s ELSE [s EXCEPT !.mp_firstfreeblock = block_ptr]

SetCount(s, n) ==
  IF s.status # "ok" THEN s ELSE [s EXCEPT !.m_freecount = n]

---------------------------------------------------------------------------
(* Free list *)

RECURSIVE ListIn(_, _, _)
\* the blocks reached by successor links from block_ptr on in allocator
\* state s; cut where a link cannot be read or a block comes a second time
ListIn(s, block_ptr, seen) ==
  IF block_ptr = NULL \/ block_ptr \in seen THEN <<>>
  ELSE IF ~Readable(s, SUC_PTR(block_ptr)) THEN <<block_ptr>>
  ELSE <<block_ptr>> \o ListIn(s, SUCC(s, block_ptr), seen \cup {block_ptr})

\* the free list of allocator state s
FreeListIn(s) == ListIn(s, s.mp_firstfreeblock, {})

\* the blocks in the free list of allocator state s
Members(s) == {FreeListIn(s)[j] : j \in 1..Len(FreeListIn(s))}

\* a variant of free_block that does not count the block
free_block_nocount(s0, block_ptr) ==
  Bind(Note(s0, "free_block", {block_ptr}), LAMBDA s :
  IF s.mp_firstfreeblock = s.p_heap_list \/ s.mp_firstfreeblock = NULL
  THEN SetFirst(PUT(PUT(s, SUC_PTR(block_ptr), NULL),
                    PRE_PTR(block_ptr), NULL),
                block_ptr)
  ELSE SetFirst(PUT(PUT(PUT(s, SUC_PTR(block_ptr), s.mp_firstfreeblock),
                        PRE_PTR(block_ptr), NULL),
                    PRE_PTR(s.mp_firstfreeblock), block_ptr),
                block_ptr))

free_block(s0, block_ptr) ==
  Bind(SetCount(Note(s0, "free_block", {block_ptr}), s0.m_freecount + 1),
       LAMBDA s :
    IF s.mp_firstfreeblock = s.p_heap_list \/ s.mp_firstfreeblock = NULL
    THEN SetFirst(PUT(PUT(s, SUC_PTR(block_ptr), NULL),
                      PRE_PTR(block_ptr), NULL),
                  block_ptr)
    ELSE SetFirst(PUT(PUT(PUT(s, SUC_PTR(block_ptr), s.mp_firstfreeblock),
                          PRE_PTR(block_ptr), NULL),
                      PRE_PTR(s.mp_firstfreeblock), block_ptr),
                  block_ptr))

\* a variant of the unlinking that leaves the links of the removed block
allocate_block_splice(s, block_ptr, pp, np) ==
  IF np = NULL THEN PUT(s, SUC_PTR(pp), NULL)
  ELSE IF pp = NULL THEN PUT(SetFirst(s, np), PRE_PTR(np), NULL)
  ELSE PUT(PUT(s, SUC_PTR(pp), np), PRE_PTR(np), pp)

\* the part of allocate_block after the two tests of m_freecount
allocate_block_unlink(s, block_ptr, pp, np) ==
  IF np = NULL
  THEN PUT(PUT(PUT(s, SUC_PTR(pp), NULL),
               SUC_PTR(block_ptr), NULL),
           PRE_PTR(block_ptr), NULL)
  ELSE IF pp = NULL
  THEN PUT(PUT(PUT(SetFirst(s, np), PRE_PTR(np), NULL),
               PRE_PTR(block_ptr), NULL),
           SUC_PTR(block_ptr), NULL)
  ELSE PUT(PUT(PUT(PUT(s, SUC_PTR(pp), np),
                   PRE_PTR(np), pp),
               SUC_PTR(block_ptr), NULL),
           PRE_PTR(block_ptr), NULL)

allocate_block(s0, block_ptr) ==
  Bind(SetCount(Note(Note(s0, "members", Members(s0)),
                     "allocate_block", {block_ptr}),
                s0.m_freecount - 1),
       LAMBDA s :
    IF s.status # "ok" THEN s
    ELSE IF s.m_freecount = 0
    THEN SetFirst(PUT(PUT(Note(s, "sole", {block_ptr}),
                          PRE_PTR(block_ptr), NULL),
                      SUC_PTR(block_ptr), NULL),
                  NULL)
    ELSE IF s.m_freecount = -1
    THEN SetCount(Note(s, "SHOULD NOT HAPPEN", {block_ptr}), 0)
    ELSE allocate_block_unlink(
           Fetch(s, {PRE_PTR(block_ptr), SUC_PTR(block_ptr)}),
           block_ptr, PREV(s, block_ptr), SUCC(s, block_ptr)))

---------------------------------------------------------------------------
(* Placement *)

RECURSIVE find_fit_loop(_, _, _, _)
\* the for loop of find_fit from block_ptr on; seen are the blocks already
\* visited: a second visit means the loop never ends
find_fit_loop(s, block_ptr, asize, seen) ==
  IF ~(s.m_freecount >= 0) THEN [st |-> s, ret |-> NULL]
  ELSE IF block_ptr = NULL THEN [st |-> s, ret |-> NULL]
  ELSE IF block_ptr \in seen THEN [st |-> Fault(s, "hang"), ret |-> NULL]
  ELSE IF ~Readable(s, HDRP(block_ptr))
  THEN [st |-> Fault(s, "undefined"), ret |-> NULL]
  ELSE IF GET_ALLOC(s, HDRP(block_ptr)) = 0
          /\ ULE(asize, GET_SIZE(s, HDRP(block_ptr)))
  THEN [st |-> s, ret |-> block_ptr]
  ELSE IF ~Readable(s, SUC_PTR(block_ptr))
  THEN [st |-> Fault(s, "undefined"), ret |-> NULL]
  ELSE find_fit_loop(s, SUCC(s, block_ptr), asize, seen \cup {block_ptr})

find_fit(s, asize) == find_fit_loop(s, s.mp_firstfreeblock, asize, {})

\* the split branch of place from block_ptr = NEXT_BLKP(block_ptr) on
place_remainder(s3, block_ptr, rsize) ==
  Bind(PUT(s3, HDRP(block_ptr), PACK(rsize, 0)), LAMBDA s4 :
  Bind(PUT(s4, FTRP(s4, block_ptr), PACK(rsize, 0)), LAMBDA s5 :
  free_block(s5, block_ptr)))

\* the split branch of place, after allocate_block
place_split(s1, block_ptr, asize, csize) ==
  Bind(PUT(s1, HDRP(block_ptr), PACK(asize, 1)), LAMBDA s2 :
  Bind(PUT(s2, FTRP(s2, block_ptr), PACK(asize, 1)), LAMBDA s3 :
  place_remainder(s3, NEXT_BLKP(s3, block_ptr), SUB(csize, asize))))

\* the other branch of place, after allocate_block
place_whole(s1, block_ptr, csize) ==
  Bind(PUT(s1, HDRP(block_ptr), PACK(csize, 1)), LAMBDA s2 :
  PUT(s2, FTRP(s2, block_ptr), PACK(csize, 1)))

place(s, block_ptr, asize) ==
  IF ULE(DSIZE + OVERHEAD, SUB(GET_SIZE(s, HDRP(block_ptr)), asize))
  THEN place_split(allocate_block(Reads(s, {HDRP(block_ptr)}), block_ptr),
                   block_ptr, asize, GET_SIZE(s, HDRP(block_ptr)))
  ELSE place_whole(allocate_block(Reads(s, {HDRP(block_ptr)}), block_ptr),
                   block_ptr, GET_SIZE(s, HDRP(block_ptr)))

---------------------------------------------------------------------------
(* Coalescing; each case returns [st, ret] *)

\* the final free_block(block_ptr); return block_ptr
coalesce_insert(s, block_ptr) ==
  [st |-> free_block(s, block_ptr), ret |-> block_ptr]

coalesce_case2(s, block_ptr, size0) ==
  Bind(allocate_block(s, NEXT_BLKP(s, block_ptr)), LAMBDA s1 :
  Bind(Fetch(s1, {HDRP(block_ptr), HDRP(NEXT_BLKP(s1, block_ptr))}), LAMBDA r1 :
  Bind(PUT(r1, HDRP(block_ptr),
           PACK(ADD(size0, GET_SIZE(r1, HDRP(NEXT_BLKP(r1, block_ptr)))), 0)),
       LAMBDA s2 :
  Bind(Fetch(s2, {HDRP(block_ptr)}), LAMBDA r2 :
  Bind(PUT(r2, FTRP(r2, block_ptr),
           PACK(ADD(size0, GET_SIZE(r1, HDRP(NEXT_BLKP(r1, block_ptr)))), 0)),
       LAMBDA s3 :
  coalesce_insert(s3, block_ptr))))))

coalesce_case3(s, block_ptr, size0) ==
  Bind(allocate_block(s, PREV_BLKP(s, block_ptr)), LAMBDA s1 :
  Bind(Fetch(s1, {SUB(block_ptr, DSIZE), HDRP(block_ptr),
                  HDRP(PREV_BLKP(s1, block_ptr))}), LAMBDA r1 :
  Bind(PUT(r1, FTRP(r1, block_ptr),
           PACK(ADD(size0, GET_SIZE(r1, HDRP(PREV_BLKP(r1, block_ptr)))), 0)),
       LAMBDA s2 :
  Bind(Fetch(s2, {SUB(block_ptr, DSIZE)}), LAMBDA r2 :
  Bind(PUT(r2, HDRP(PREV_BLKP(r2, block_ptr)),
           PACK(ADD(size0, GET_SIZE(r1, HDRP(PREV_BLKP(r1, block_ptr)))), 0)),
       LAMBDA s3 :
  Bind(Fetch(s3, {SUB(block_ptr, DSIZE)}), LAMBDA r3 :
  coalesce_insert(r3, PREV_BLKP(r3, block_ptr))))))))

\* size += GET_SIZE(HDRP(PREV_BLKP(bp))) + GET_SIZE(FTRP(NEXT_BLKP(bp)))
coalesce_size4(s, block_ptr, size0) ==
  ADD(size0, ADD(GET_SIZE(s, HDRP(PREV_BLKP(s, block_ptr))),
                 GET_SIZE(s, FTRP(s, NEXT_BLKP(s, block_ptr)))))

coalesce_case4(s, block_ptr, size0) ==
  Bind(allocate_block(s, NEXT_BLKP(s, block_ptr)), LAMBDA s1 :
  Bind(Fetch(s1, {SUB(block_ptr, DSIZE)}), LAMBDA r1 :
  Bind(allocate_block(r1, PREV_BLKP(r1, block_ptr)), LAMBDA s2 :
  Bind(Fetch(s2, {SUB(block_ptr, DSIZE), HDRP(block_ptr),
                  HDRP(PREV_BLKP(s2, block_ptr)),
                  HDRP(NEXT_BLKP(s2, block_ptr)),
                  FTRP(s2, NEXT_BLKP(s2, block_ptr))}), LAMBDA r2 :
  Bind(PUT(r2, HDRP(PREV_BLKP(r2, block_ptr)),
           PACK(coalesce_size4(r2, block_ptr, size0), 0)), LAMBDA s3 :
  Bind(Fetch(s3, {HDRP(block_ptr), HDRP(NEXT_BLKP(s3, block_ptr))}), LAMBDA r3 :
  Bind(PUT(r3, FTRP(r3, NEXT_BLKP(r3, block_ptr)),
           PACK(coalesce_size4(r2, block_ptr, size0), 0)), LAMBDA s4 :
  Bind(Fetch(s4, {SUB(block_ptr, DSIZE)}), LAMBDA r4 :
  coalesce_insert(r4, PREV_BLKP(r4, block_ptr))))))))))

\* the four cases, on the two flags and the size read at the entry
coalesce_cases(s, block_ptr, prev_alloc, next_alloc, size) ==
  IF s.status # "ok" THEN [st |-> s, ret |-> NULL]
  ELSE IF prev_alloc = 1 /\ next_alloc = 1
  THEN coalesce_insert(s, block_ptr)
  ELSE IF prev_alloc = 1 /\ next_alloc = 0
  THEN coalesce_case2(s, block_ptr, size)
  ELSE IF prev_alloc = 0 /\ next_alloc = 1
  THEN coalesce_case3(s, block_ptr, size)
  ELSE coalesce_case4(s, block_ptr, size)

coalesce(s, block_ptr) ==
  coalesce_cases(Fetch(s, {SUB(block_ptr, DSIZE),
                           HDRP(PREV_BLKP(s, block_ptr)),
                           FTRP(s, PREV_BLKP(s, block_ptr)),
                           HDRP(block_ptr),
                           HDRP(NEXT_BLKP(s, block_ptr))}),
                 block_ptr,
                 GET_ALLOC(s, FTRP(s, PREV_BLKP(s, block_ptr))),
                 GET_ALLOC(s, HDRP(NEXT_BLKP(s, block_ptr))),
                 GET_SIZE(s, HDRP(block_ptr)))

---------------------------------------------------------------------------
(* Heap growth and the public operations *)

\* a variant of extend_heap_format that tests the provider's result against
\* NULL, as mm_init does, and so takes the failure sentinel for an address
extend_heap_format_null(g, size) ==
  IF g.ret = NULL THEN [st |-> g.st, ret |-> NULL]
  ELSE
  Bind(PUT(g.st, HDRP(g.ret), PACK(size, 0)), LAMBDA s1 :
  Bind(PUT(s1, FTRP(s1, g.ret), PACK(size, 0)), LAMBDA s2 :
  Bind(PUT(s2, HDRP(NEXT_BLKP(s2, g.ret)), PACK(0, 1)), LAMBDA s3 :
  coalesce(s3, g.ret))))

\* extend_heap after mem_sbrk returned g = [st, ret] for size bytes
extend_heap_format(g, size) ==
  IF g.ret = SBRK_FAILED THEN [st |-> g.st, ret |-> NULL]
  ELSE
  Bind(PUT(g.st, HDRP(g.ret), PACK(size, 0)), LAMBDA s1 :
  Bind(PUT(s1, FTRP(s1, g.ret), PACK(size, 0)), LAMBDA s2 :
  Bind(PUT(s2, HDRP(NEXT_BLKP(s2, g.ret)), PACK(0, 1)), LAMBDA s3 :
  coalesce(s3, g.ret))))

\* size = (words % 2) ? (words+1) * WSIZE : words * WSIZE
extend_heap_size(words) ==
  IF words % 2 = 1 THEN MUL(ADD(words, 1), WSIZE) ELSE MUL(words, WSIZE)

extend_heap(s, words) ==
  extend_heap_format(mem_sbrk(s, extend_heap_size(words)),
                     extend_heap_size(words))

\* mm_init after extend_heap returned e = [st, ret]
mm_init_links(e) ==
  IF e.st.status # "ok" \/ e.ret = NULL THEN [st |-> e.st, ret |-> -1]
  ELSE
  Bind(PUT(e.st, SUC_PTR(ADD(e.st.mp_firstfreeblock, WSIZE)), NULL), LAMBDA s6 :
  Bind(PUT(s6, PRE_PTR(ADD(s6.mp_firstfreeblock, WSIZE)), NULL), LAMBDA s7 :
  [st |-> s7, ret |-> 0]))

\* mm_init after mem_sbrk returned g = [st, ret]
mm_init_format(g) ==
  IF g.ret = NULL THEN [st |-> g.st, ret |-> -1]
  ELSE
  Bind(PUT(PUT(PUT(PUT(g.st, g.ret, 0),
                   ADD(g.ret, WSIZE), PACK(OVERHEAD, 1)),
               ADD(g.ret, DSIZE), PACK(OVERHEAD, 1)),
           ADD(g.ret, WSIZE + DSIZE), PACK(0, 1)), LAMBDA s4 :
  IF s4.status # "ok" THEN [st |-> s4, ret |-> -1]
  ELSE mm_init_links(
         extend_heap([s4 EXCEPT !.p_heap_list = ADD(g.ret, DSIZE),
                                !.mp_firstfreeblock = ADD(g.ret, DSIZE),
                                !.m_freecount = 0],
                     CHUNKSIZE \div WSIZE)))

\* a variant of mm_init that omits the alignment padding word
mm_init_nopad(s) ==
  LET g == mem_sbrk(s, 3 * WSIZE)
  IN  IF g.ret = NULL THEN [st |-> g.st, ret |-> -1]
      ELSE
      Bind(PUT(PUT(PUT(g.st, g.ret, PACK(OVERHEAD, 1)),
                   ADD(g.ret, WSIZE), PACK(OVERHEAD, 1)),
               ADD(g.ret, DSIZE), PACK(0, 1)), LAMBDA s4 :
      IF s4.status # "ok" THEN [st |-> s4, ret |-> -1]
      ELSE mm_init_links(
             extend_heap([s4 EXCEPT !.p_heap_list = ADD(g.ret, WSIZE),
                                    !.mp_firstfreeblock = ADD(g.ret, WSIZE),
                                    !.m_freecount = 0],
                         CHUNKSIZE \div WSIZE)))

mm_init(s) == mm_init_format(mem_sbrk(s, 4 * WSIZE))

\* the adjusted block size of mm_malloc
mm_malloc_asize(size) ==
  IF ULE(size, DSIZE) THEN DSIZE + OVERHEAD
  ELSE MUL(UDIV(ADD(size, OVERHEAD + (DSIZE - 1)), DSIZE), DSIZE)

\* mm_malloc after extend_heap returned e = [st, ret]
mm_malloc_grown(e, asize) ==
  IF e.st.status # "ok" THEN [st |-> e.st, ret |-> NULL, how |-> "grown"]
  ELSE IF e.ret = NULL THEN [st |-> e.st, ret |-> NULL, how |-> "nomem"]
  ELSE [st |-> place(e.st, e.ret, asize), ret |-> e.ret, how |-> "grown"]

\* a variant of mm_malloc_found that grows the heap by asize alone
mm_malloc_found_asize(f, asize) ==
  IF f.st.status # "ok" THEN [st |-> f.st, ret |-> NULL, how |-> "fit"]
  ELSE IF f.ret # NULL
  THEN [st |-> place(f.st, f.ret, asize), ret |-> f.ret, how |-> "fit"]
  ELSE mm_malloc_grown(extend_heap(f.st, UDIV(asize, WSIZE)), asize)

\* mm_malloc after find_fit returned f = [st, ret]
mm_malloc_found(f, asize) ==
  IF f.st.status # "ok" THEN [st |-> f.st, ret |-> NULL, how |-> "fit"]
  ELSE IF f.ret # NULL
  THEN [st |-> place(f.st, f.ret, asize), ret |-> f.ret, how |-> "fit"]
  ELSE mm_malloc_grown(extend_heap(f.st, UDIV(MAX(asize, CHUNKSIZE), WSIZE)),
                       asize)

\* how: "reject" (spurious request), "fit" (find_fit found a block),
\* "grown" (the heap was extended), "nomem" (the provider refused)
mm_malloc(s, size) ==
  IF ULE(size, 0) THEN [st |-> s, ret |-> NULL, how |-> "reject"]
  ELSE mm_malloc_found(find_fit(s, mm_malloc_asize(size)),
                       mm_malloc_asize(size))

\* mm_free up to its call of coalesce: both tags get flag 0
mm_free_tags(s, block_ptr) ==
  Bind(PUT(Reads(s, {HDRP(block_ptr)}), HDRP(block_ptr),
           PACK(GET_SIZE(s, HDRP(block_ptr)), 0)), LAMBDA s1 :
  PUT(s1, FTRP(s1, block_ptr), PACK(GET_SIZE(s, HDRP(block_ptr)), 0)))

mm_free(s, block_ptr) ==
  Bind(mm_free_tags(s, block_ptr), LAMBDA s2 :
  IF s2.status # "ok" THEN s2 ELSE coalesce(s2, block_ptr).st)

\* the word a partial copy of rem bytes leaves: the low bytes of v over d
memcpy_mix(d, v, rem) ==
  IF rem = 1 THEN (d - (d % 256)) + (v % 256)
  ELSE IF rem = 2 THEN (d - (d % 65536)) + (v % 65536)
  ELSE (d - (d % 16777216)) + (v % 16777216)

\* the heap words after memcpy(dst, src, full + rem): keep are the words
\* outside the destination, got the source words copied whole
memcpy_words(m, dst, src, full, rem, keep, got) ==
  [a \in keep \cup {ADD(dst, SUB(b, src)) : b \in got}
         \cup (IF rem > 0 /\ ADD(src, full) \in DOMAIN m
                          /\ ADD(dst, full) \in DOMAIN m
               THEN {ADD(dst, full)} ELSE {}) |->
     IF a \in keep THEN m[a]
     ELSE IF ULT(SUB(a, dst), full) THEN m[ADD(src, SUB(a, dst))]
     ELSE memcpy_mix(m[a], m[ADD(src, full)], rem)]

\* memcpy(dst, src, n) on a little-endian machine; a destination word whose
\* source word was never written becomes indeterminate again
memcpy(s, dst, src, n) ==
  IF s.status # "ok" \/ n = 0 THEN s
  ELSE IF \/ ULT(SUB(s.mem_brk, mem_start_brk), n)
          \/ ~InHeap(s, src) \/ ~InHeap(s, ADD(src, SUB(n, 1) - (SUB(n, 1) % WSIZE)))
          \/ ~InHeap(s, dst) \/ ~InHeap(s, ADD(dst, SUB(n, 1) - (SUB(n, 1) % WSIZE)))
          \/ ULT(SUB(dst, src), n) \/ ULT(SUB(src, dst), n)
  THEN Fault(s, "undefined")
  ELSE [s EXCEPT !.mem =
          memcpy_words(s.mem, dst, src, n - (n % WSIZE), n % WSIZE,
                       {a \in DOMAIN s.mem : ~ULT(SUB(a, dst), n)},
                       {a \in DOMAIN s.mem : ULT(SUB(a, src), n - (n % WSIZE))})]

\* copySize = GET_SIZE(HDRP(ptr)); if (size < copySize) copySize = size;
mm_realloc_copySize(s, ptr, size) ==
  IF ULT(size, GET_SIZE(s, HDRP(ptr))) THEN size ELSE GET_SIZE(s, HDRP(ptr))

\* mm_realloc after mm_malloc returned m = [st, ret, how];
\* copy: the number of bytes handed to memcpy
mm_realloc_copy(m, ptr, size) ==
  IF m.st.status # "ok" THEN [st |-> m.st, ret |-> NULL, copy |-> 0]
  ELSE IF m.ret = NULL
  THEN [st |-> Fault(m.st, "exit"), ret |-> NULL, copy |-> 0]
  ELSE [st |-> mm_free(memcpy(Reads(m.st, {HDRP(ptr)}), m.ret, ptr,
                              mm_realloc_copySize(m.st, ptr, size)),
                       ptr),
        ret |-> m.ret,
        copy |-> mm_realloc_copySize(m.st, ptr, size)]

\* a variant of mm_realloc that frees the old block before it allocates
mm_realloc_freefirst(s, ptr, size) ==
  mm_realloc_copy(mm_malloc(mm_free(s, ptr), size), ptr, size)

\* a variant of mm_realloc that frees the block when size is 0
mm_realloc_zerofrees(s, ptr, size) ==
  IF size = 0 THEN [st |-> mm_free(s, ptr), ret |-> NULL, copy |-> 0]
  ELSE mm_realloc_copy(mm_malloc(s, size), ptr, size)

mm_realloc(s, ptr, size) == mm_realloc_copy(mm_malloc(s, size), ptr, size)

---------------------------------------------------------------------------
(* The heap checker; c = [st, out, bp]: heap, lines of complaint printed   *)
(* so far, and the block the walk stands at                                *)

\* printblock reads header and footer before it tests for the epilogue
printblock(c, block_ptr) ==
  [c EXCEPT !.st = Reads(c.st, {HDRP(block_ptr), FTRP(c.st, block_ptr)})]

\* a variant of checkblock that only tests the alignment
checkblock_align(c, block_ptr) ==
  [c EXCEPT
     !.st = Reads(c.st, {HDRP(block_ptr), FTRP(c.st, block_ptr)}),
     !.out = @ \cup (IF UMOD(block_ptr, 8) # 0
                     THEN {"Error: not doubleword aligned"} ELSE {})]

checkblock(c, block_ptr) ==
  [c EXCEPT
     !.st = Reads(c.st, {HDRP(block_ptr), FTRP(c.st, block_ptr)}),
     !.out = @ \cup (IF UMOD(block_ptr, 8) # 0
                     THEN {"Error: not doubleword aligned"} ELSE {})
               \cup (IF GET(c.st, HDRP(block_ptr))
                          # GET(c.st, FTRP(c.st, block_ptr))
                     THEN {"Error: header does not match footer"} ELSE {})]

RECURSIVE mm_checkheap_loop(_, _, _)
\* for (block_ptr = p_heap_list; GET_SIZE(HDRP(block_ptr)) > 0; ...)
mm_checkheap_loop(c, verbose, seen) ==
  IF c.st.status # "ok" THEN c
  ELSE IF ~Readable(c.st, HDRP(c.bp)) THEN [c EXCEPT !.st = Fault(@, "undefined")]
  ELSE IF GET_SIZE(c.st, HDRP(c.bp)) = 0 THEN c
  ELSE IF c.bp \in seen THEN [c EXCEPT !.st = Fault(@, "hang")]
  ELSE mm_checkheap_loop(
         [checkblock(IF verbose THEN printblock(c, c.bp) ELSE c, c.bp)
            EXCEPT !.bp = NEXT_BLKP(c.st, c.bp)],
         verbose, seen \cup {c.bp})

\* mm_checkheap after the walk has stopped at c.bp
mm_checkheap_epilogue(c, verbose) ==
  IF c.st.status # "ok" THEN c
  ELSE Bind(IF verbose THEN printblock(c, c.bp) ELSE c, LAMBDA d :
       IF d.st.status # "ok" THEN d
       ELSE IF GET_SIZE(d.st, HDRP(d.bp)) # 0 \/ GET_ALLOC(d.st, HDRP(d.bp)) = 0
       THEN [d EXCEPT !.out = @ \cup {"Bad epilogue header"}]
       ELSE d)

\* mm_checkheap up to the walk
mm_checkheap_prologue(s) ==
  checkblock(
    [st |-> s, bp |-> s.p_heap_list,
     out |-> IF \/ GET_SIZE(s, HDRP(s.p_heap_list)) # DSIZE
                \/ GET_ALLOC(s, HDRP(s.p_heap_list)) = 0
             THEN {"Bad prologue header"} ELSE {}],
    s.p_heap_list)

mm_checkheap(s, verbose) ==
  mm_checkheap_epilogue(
    mm_checkheap_loop(mm_checkheap_prologue(Reads(s, {HDRP(s.p_heap_list)})),
                      verbose, {}),
    verbose)

---------------------------------------------------------------------------
(* State *)

VARIABLES
  mem, mem_brk, mem_max_addr,                   \* the heap and the provider
  p_heap_list, mp_firstfreeblock, m_freecount,  \* the allocator's globals
  status,     \* "ok", "undefined", "hang" or "exit"
  phase,      \* "start", "run" (mm_init returned 0) or "failed"
  live,       \* caller's view: address returned and not yet freed -> size asked
  wr,         \* addresses the allocator wrote during the last operation
  hist,       \* the last operations, oldest first
  nops, nwrites,
  trio        \* the three blocks of the scenario: <<[ptr, size], ...>>

vars == <<mem, mem_brk, mem_max_addr, p_heap_list, mp_firstfreeblock,
          m_freecount, status, phase, live, wr, hist, nops, nwrites, trio>>

\* provider capacities a run may start with
Capacities == {DSIZE, 2000, MAX_HEAP}

\* request sizes: 0xFFFFFFFF, 0xFFFFFFF1 and 0x80000000 are -1, -15, MinInt
MallocSizes == {0, 1, 100, 4000, -1, -15, MinInt}
ReallocSizes == {0, DSIZE, 4000}

\* the words a caller stores: 0xFFFFFFFF
UserWords == {-1}

Cur == [mem |-> mem, mem_brk |-> mem_brk, mem_max_addr |-> mem_max_addr,
        p_heap_list |-> p_heap_list, mp_firstfreeblock |-> mp_firstfreeblock,
        m_freecount |-> m_freecount, status |-> "ok", wr |-> {},
        log |-> <<>>]

Install(s) ==
  /\ mem' = s.mem
  /\ mem_brk' = s.mem_brk
  /\ mem_max_addr' = s.mem_max_addr
  /\ p_heap_list' = s.p_heap_list
  /\ mp_firstfreeblock' = s.mp_firstfreeblock
  /\ m_freecount' = s.m_freecount
  /\ status' = s.status
  /\ wr' = s.wr

Entry(op, size, ptr, ret, how, copy) ==
  [op |-> op, size |-> size, ptr |-> ptr, ret |-> ret, how |-> how,
   copy |-> copy, brk0 |-> mem_brk, hdr0 |-> GET(Cur, HDRP(ptr)),
   dup |-> (ret # NULL /\ ret \in DOMAIN live), out |-> {}]

\* hist keeps the last three operations
Remember(e) ==
  hist' = IF Len(hist) < 3 THEN Append(hist, e)
          ELSE Append(Tail(hist), e)

Without(f, p) == [a \in (DOMAIN f) \ {p} |-> f[a]]
With(f, p, v) == [a \in (DOMAIN f) \cup {p} |-> IF a = p THEN v ELSE f[a]]

Init ==
  /\ mem = <<>>
  /\ mem_brk = mem_start_brk
  /\ mem_max_addr \in {ADD(mem_start_brk, c) : c \in Capacities}
  /\ p_heap_list = NULL
  /\ mp_firstfreeblock = NULL
  /\ m_freecount = 0
  /\ status = "ok"
  /\ phase = "start"
  /\ live = <<>>
  /\ wr = {}
  /\ hist = <<>>
  /\ nops = 0
  /\ nwrites = 0
  /\ trio = <<>>

Running == phase = "run" /\ status = "ok" /\ nops < MaxOps

DoInit ==
  /\ phase = "start"
  /\ LET r == mm_init(Cur)
     IN  /\ Install(r.st)
         /\ phase' = IF r.st.status = "ok" /\ r.ret = 0 THEN "run" ELSE "failed"
         /\ Remember(Entry("init", 0, NULL, r.ret, "", 0))
  /\ UNCHANGED <<live, nops, nwrites, trio>>

\* a call of mm_malloc and what the caller learns from it
Malloc(size) ==
  LET r == mm_malloc(Cur, size)
  IN  /\ Install(r.st)
      /\ live' = IF r.st.status = "ok" /\ r.ret # NULL
                 THEN With(live, r.ret, size) ELSE live
      /\ Remember(Entry("malloc", size, NULL, r.ret, r.how, 0))
      /\ nops' = nops + 1

\* a call of mm_free on a live address
Free(ptr) ==
  /\ ptr \in DOMAIN live
  /\ Install(mm_free(Cur, ptr))
  /\ live' = Without(live, ptr)
  /\ Remember(Entry("free", 0, ptr, NULL, "", 0))
  /\ nops' = nops + 1

DoMalloc(size) ==
  /\ Running
  /\ Malloc(size)
  /\ UNCHANGED <<phase, nwrites, trio>>

DoFree(ptr) ==
  /\ Running
  /\ Free(ptr)
  /\ UNCHANGED <<phase, nwrites, trio>>

DoRealloc(ptr, size) ==
  /\ Running
  /\ ptr \in DOMAIN live
  /\ LET r == mm_realloc(Cur, ptr, size)
     IN  /\ Install(r.st)
         /\ live' = IF r.st.status = "ok"
                    THEN With(Without(live, ptr), r.ret, size) ELSE live
         /\ Remember(Entry("realloc", size, ptr, r.ret, "", r.copy))
  /\ nops' = nops + 1
  /\ UNCHANGED <<phase, nwrites, trio>>

\* word offsets of a payload of size bytes that a caller stores to
UserOffsets(size) == {off \in {0, WSIZE} : ULE(off + WSIZE, size)}

\* the caller stores a word inside the payload it asked for
DoWrite(ptr, off, word) ==
  /\ Running
  /\ nwrites < MaxWrites
  /\ ptr \in DOMAIN live
  /\ off \in UserOffsets(live[ptr])
  /\ InHeap(Cur, ADD(ptr, off))
  /\ mem' = Store(mem, ADD(ptr, off), word)
  /\ wr' = {}
  /\ Remember(Entry("write", off, ptr, NULL, "", 0))
  /\ nwrites' = nwrites + 1
  /\ nops' = nops + 1
  /\ UNCHANGED <<mem_brk, mem_max_addr, p_heap_list, mp_firstfreeblock,
                 m_freecount, status, phase, live, trio>>

Next ==
  \/ DoInit
  \/ \E size \in MallocSizes : DoMalloc(size)
  \/ \E ptr \in DOMAIN live : DoFree(ptr)
  \/ \E ptr \in DOMAIN live : \E size \in ReallocSizes : DoRealloc(ptr, size)
  \/ \E ptr \in DOMAIN live : \E off \in {0, WSIZE} :
       \E word \in UserWords : DoWrite(ptr, off, word)

Spec == Init /\ [][Next]_vars

---------------------------------------------------------------------------
(* Views of a state used by the properties *)

\* the operation that led to this state
Last == hist[Len(hist)]

\* mm_init returned 0 and every operation since had defined behaviour
Quiescent == phase = "run" /\ status = "ok"

RECURSIVE ScanFrom(_, _)
\* the blocks a header scan visits from block_ptr on, as mm_checkheap walks:
\* it ends with the first block whose header holds size 0 (the epilogue);
\* it is cut where a header cannot be read or a block comes a second time
ScanFrom(block_ptr, seen) ==
  IF block_ptr \in seen \/ ~Readable(Cur, HDRP(block_ptr)) THEN <<>>
  ELSE IF GET_SIZE(Cur, HDRP(block_ptr)) = 0 THEN <<block_ptr>>
  ELSE <<block_ptr>> \o ScanFrom(NEXT_BLKP(Cur, block_ptr), seen \cup {block_ptr})

\* prologue, user blocks, epilogue
HeapScan == ScanFrom(p_heap_list, {})

\* allocated flag in the header of a block
Flag(block_ptr) == GET_ALLOC(Cur, HDRP(block_ptr))

\* user blocks whose header has allocated flag 0
FreeByHeader ==
  {HeapScan[i] : i \in {j \in 1..Len(HeapScan) :
       GET_SIZE(Cur, HDRP(HeapScan[j])) # 0 /\ Flag(HeapScan[j]) = 0}}

RECURSIVE ListFrom(_, _)
\* the blocks reached by successor links from block_ptr on; cut where a link
\* cannot be read or a block comes a second time
ListFrom(block_ptr, seen) ==
  IF block_ptr = NULL \/ block_ptr \in seen THEN <<>>
  ELSE IF ~Readable(Cur, SUC_PTR(block_ptr)) THEN <<block_ptr>>
  ELSE <<block_ptr>> \o ListFrom(SUCC(Cur, block_ptr), seen \cup {block_ptr})

FreeList == ListFrom(mp_firstfreeblock, {})

\* address a lies in the payload [ptr, ptr + size) the caller asked for
InPayload(a, ptr, size) == ULT(SUB(a, ptr), size)

\* [ptr, ptr + size) lies inside the heap
PayloadInHeap(ptr, size) ==
  /\ ULE(size, SUB(mem_brk, mem_start_brk))
  /\ ULE(SUB(ptr, mem_start_brk), SUB(SUB(mem_brk, mem_start_brk), size))

---------------------------------------------------------------------------
(* C1 *)

\* C1: after mm_init and any sequence of mm_malloc/mm_free on live
\* addresses, the payloads [p, p+requested) of the live addresses are
\* pairwise disjoint and inside the heap, no address is handed out twice,
\* and no word the allocator wrote in the last operation lies in the
\* payload of an address that was live before and after it.
C1_RoundTrip ==
  Quiescent =>
    /\ \A p \in DOMAIN live : PayloadInHeap(p, live[p])
    /\ \A p, q \in DOMAIN live :
         p # q => ~InPayload(q, p, live[p]) /\ ~InPayload(p, q, live[q])
    /\ ~Last.dup
    /\ \A p \in (DOMAIN live) \ {Last.ret} :
         \A a \in wr : ~InPayload(a, p, live[p])

---------------------------------------------------------------------------
(* C2 *)

\* C2: whenever a public operation has returned, the header scan from the
\* prologue to the epilogue finds no two physically adjacent blocks that
\* both have allocated flag 0.
C2_NoAdjacentFree ==
  Quiescent =>
    \A i \in 1..(Len(HeapScan) - 1) :
      ~(Flag(HeapScan[i]) = 0 /\ Flag(HeapScan[i + 1]) = 0)

---------------------------------------------------------------------------
(* C3 *)

\* C3: when no operation is in progress, the blocks reached by successor
\* links from mp_firstfreeblock are exactly the heap blocks whose header
\* has allocated flag 0, each once.
C3_ListMatchesHeaders ==
  Quiescent =>
    /\ {FreeList[i] : i \in 1..Len(FreeList)} = FreeByHeader
    /\ Len(FreeList) = Cardinality(FreeByHeader)

---------------------------------------------------------------------------
(* C4 *)

\* an operation that returns an address has returned
Returned ==
  /\ status = "ok"
  /\ Len(hist) > 0
  /\ Last.op \in {"malloc", "realloc"}
  /\ Last.ret # NULL

---------------------------------------------------------------------------
(* C5 *)

\* split threshold: the least remainder place splits off
SplitThreshold == DSIZE + OVERHEAD

\* C5: for every request size s (32-bit arithmetic) for which mm_malloc
\* returns an address, the size in the header of the returned block is
\* at least s + 8 and at most s + 8 + 16.
C5_SizeBounds ==
  (Returned /\ Last.op = "malloc") =>
    /\ ULE(ADD(Last.size, OVERHEAD), GET_SIZE(Cur, HDRP(Last.ret)))
    /\ ULE(GET_SIZE(Cur, HDRP(Last.ret)),
           ADD(Last.size, OVERHEAD + SplitThreshold))

---------------------------------------------------------------------------
(* C6 *)

\* the step is a call of mm_malloc
MallocStep == nops' # nops /\ Last'.op = "malloc"

\* heap words, free list head and free count are as before the step
HeapUnchanged ==
  /\ mem' = mem
  /\ mp_firstfreeblock' = mp_firstfreeblock
  /\ m_freecount' = m_freecount

\* C6: mm_malloc with size 0, or with a size that is negative as a signed
\* word, returns NULL and leaves every heap word, the free list and the
\* free count unchanged.
C6_InvalidRequest ==
  [][(MallocStep /\ Last'.size <= 0) => (Last'.ret = NULL /\ HeapUnchanged)]_vars

---------------------------------------------------------------------------
(* C7 *)

\* find_fit finds no block for a request of size bytes in this state
NoFit(size) ==
  /\ find_fit(Cur, mm_malloc_asize(size)).st.status = "ok"
  /\ find_fit(Cur, mm_malloc_asize(size)).ret = NULL

\* the provider refuses the growth mm_malloc asks for a request of size bytes
ProviderRefuses(size) ==
  mem_sbrk(Cur, extend_heap_size(UDIV(MAX(mm_malloc_asize(size), CHUNKSIZE),
                                      WSIZE))).ret = SBRK_FAILED

\* C7: when find_fit finds no fit and the provider fails the growth
\* request, mm_malloc returns NULL and heap words, free list head, free
\* count and high-water mark are as before the call.
C7_OutOfMemory ==
  [][(MallocStep /\ ~ULE(Last'.size, 0) /\ NoFit(Last'.size)
        /\ ProviderRefuses(Last'.size))
     => (Last'.ret = NULL /\ status' = "ok" /\ HeapUnchanged
           /\ mem_brk' = mem_brk /\ live' = live)]_vars

\* a state where mm_malloc has just failed for lack of memory while
\* addresses are live
C7_Witness ==
  /\ Quiescent /\ Last.op = "malloc" /\ Last.how = "nomem"
  /\ Last.size = 4000 /\ DOMAIN live # {}

---------------------------------------------------------------------------
(* C8 *)

\* the last three operations were p = mm_malloc(n), mm_free(p), mm_malloc(n)
SymmetryRun ==
  /\ Len(hist) = 3
  /\ hist[1].op = "malloc" /\ hist[1].ret # NULL
  /\ hist[2].op = "free" /\ hist[2].ptr = hist[1].ret
  /\ hist[3].op = "malloc" /\ hist[3].size = hist[1].size

\* C8: if p = mm_malloc(n) succeeds and is followed at once by mm_free(p)
\* and mm_malloc(n), the second mm_malloc returns p and does not grow the
\* heap; when the first call found a fit the high-water mark is the one
\* before the first call.
C8_Symmetry ==
  SymmetryRun =>
    /\ status = "ok"
    /\ hist[3].ret = hist[1].ret
    /\ mem_brk = hist[3].brk0
    /\ hist[1].how = "fit" => mem_brk = hist[1].brk0

---------------------------------------------------------------------------
(* C9: the scenario of three adjacent equal blocks *)

\* operations before the three requests
MaxPrefix == 2

\* request sizes of the three blocks; 0xFFFFFFFF is -1
TrioSizes == {1, 100, 1000, -1}
PrefixSizes == {1, 100, 4000}

TrioPtrs == {trio[i].ptr : i \in 1..Len(trio)}

\* the three blocks have one size and lie one after the other
TrioAdjacent ==
  /\ Len(trio) = 3
  /\ trio[2].size = trio[1].size /\ trio[3].size = trio[1].size
  /\ trio[2].ptr = ADD(trio[1].ptr, trio[1].size)
  /\ trio[3].ptr = ADD(trio[2].ptr, trio[1].size)

TriplePrefixMalloc(size) ==
  /\ Quiescent /\ trio = <<>> /\ nops < MaxPrefix
  /\ Malloc(size)
  /\ UNCHANGED <<phase, nwrites, trio>>

TriplePrefixFree(ptr) ==
  /\ Quiescent /\ trio = <<>> /\ nops < MaxPrefix
  /\ Free(ptr)
  /\ UNCHANGED <<phase, nwrites, trio>>

\* one of the three requests of the same size
TripleAlloc(size) ==
  /\ Quiescent /\ Len(trio) < 3
  /\ IF trio = <<>> THEN nops <= MaxPrefix
     ELSE size = trio[1].req /\ Last.ret = trio[Len(trio)].ptr
  /\ Malloc(size)
  /\ trio' = IF status' = "ok" /\ Last'.ret # NULL
             THEN Append(trio, [ptr |-> Last'.ret, req |-> size,
                                size |-> GET_SIZE(Cur', HDRP(Last'.ret))])
             ELSE trio
  /\ UNCHANGED <<phase, nwrites>>

\* a further block may be allocated behind the three
TripleSuffix ==
  /\ Quiescent /\ TrioAdjacent /\ Last.ret = trio[3].ptr
  /\ Malloc(1)
  /\ UNCHANGED <<phase, nwrites, trio>>

TripleFree(ptr) ==
  /\ Quiescent /\ TrioAdjacent /\ ptr \in TrioPtrs
  /\ Free(ptr)
  /\ UNCHANGED <<phase, nwrites, trio>>

\* the three blocks have been freed
TrioFreed == phase = "run" /\ TrioAdjacent /\ TrioPtrs \cap DOMAIN live = {}

\* the request for the whole of the three blocks
TripleFinal ==
  /\ status = "ok" /\ TrioFreed
  /\ Malloc(SUB(MUL(3, trio[1].size), OVERHEAD))
  /\ phase' = "done"
  /\ UNCHANGED <<nwrites, trio>>

NextTriple ==
  \/ DoInit
  \/ \E size \in PrefixSizes : TriplePrefixMalloc(size)
  \/ \E ptr \in DOMAIN live : TriplePrefixFree(ptr)
  \/ \E size \in TrioSizes : TripleAlloc(size)
  \/ TripleSuffix
  \/ \E ptr \in DOMAIN live : TripleFree(ptr)
  \/ TripleFinal

SpecTriple == Init /\ [][NextTriple]_vars

\* some free block of the header scan spans the three blocks
TrioSpanned ==
  \E i \in 1..Len(HeapScan) :
    /\ Flag(HeapScan[i]) = 0
    /\ ULE(HeapScan[i], trio[1].ptr)
    /\ ULE(ADD(trio[3].ptr, trio[1].size),
           ADD(HeapScan[i], GET_SIZE(Cur, HDRP(HeapScan[i]))))

\* C9: three physically adjacent allocated blocks of equal size, freed in
\* any order, end up inside one free block, and mm_malloc(3 * size - 8)
\* then returns an address without growing the heap.
C9_TripleCoalesce ==
  /\ (phase = "run" /\ TrioAdjacent /\ Last.op = "free") => status = "ok"
  /\ (status = "ok" /\ TrioFreed) => TrioSpanned
  /\ phase = "done" =>
       (status = "ok" /\ Last.ret # NULL /\ mem_brk = Last.brk0)

---------------------------------------------------------------------------
(* C10 *)

\* unsigned minimum
UMin(a, b) == IF ULT(a, b) THEN a ELSE b

\* C10: mm_realloc(ptr, size) on a live ptr copies exactly
\* min(size, header size of the old block - 8) bytes, so it reads neither
\* the old block's footer nor the next block's header as data.
C10_ReallocCopy ==
  (status = "ok" /\ Len(hist) > 0 /\ Last.op = "realloc") =>
    Last.copy = UMin(Last.size, SUB(SizeBits(Last.hdr0), OVERHEAD))

---------------------------------------------------------------------------
(* C11 *)

\* mm_realloc has returned from a request of more than 0 bytes
ReallocDone == Quiescent /\ Last.op = "realloc" /\ Last.size # 0

\* block i of the header scan is free, is a member of the free list, has
\* no free physical neighbour and spans the block of size bytes at block_ptr
FreeSpanAt(i, block_ptr, size) ==
  /\ Flag(HeapScan[i]) = 0
  /\ \E j \in 1..Len(FreeList) : FreeList[j] = HeapScan[i]
  /\ i > 1 => Flag(HeapScan[i - 1]) = 1
  /\ i < Len(HeapScan) => Flag(HeapScan[i + 1]) = 1
  /\ ULE(HeapScan[i], block_ptr)
  /\ ULE(ADD(block_ptr, size),
         ADD(HeapScan[i], GET_SIZE(Cur, HDRP(HeapScan[i]))))

\* C11: when mm_realloc(ptr, size) with size > 0 returns, the address it
\* returns differs from ptr, the new block does not overlap the old one,
\* the old block lies in a free, coalesced member of the free list and the
\* new block is allocated.
C11_NeverInPlace ==
  ReallocDone =>
    /\ Last.ret # Last.ptr
    /\ ~ULT(SUB(Last.ret, Last.ptr), SizeBits(Last.hdr0))
    /\ ~ULT(SUB(Last.ptr, Last.ret), GET_SIZE(Cur, HDRP(Last.ret)))
    /\ \E i \in 1..Len(HeapScan) :
         FreeSpanAt(i, Last.ptr, SizeBits(Last.hdr0))
    /\ Flag(Last.ret) = 1

---------------------------------------------------------------------------
(* C12 *)

\* the step is a call of mm_realloc
ReallocStep == nops' # nops /\ Last'.op = "realloc"

\* C12: when mm_realloc asks for more than 0 bytes, find_fit finds no fit
\* and the provider refuses to grow, mm_realloc does not return: the
\* process exits, and heap words, free list head, free count and
\* high-water mark are as before the call (the old block is not freed).
C12_ReallocExits ==
  [][(ReallocStep /\ ~ULE(Last'.size, 0) /\ NoFit(Last'.size)
        /\ ProviderRefuses(Last'.size))
     => (status' = "exit" /\ HeapUnchanged /\ mem_brk' = mem_brk
           /\ live' = live)]_vars

\* mm_realloc has ended the process for lack of memory
C12_Witness ==
  /\ phase = "run" /\ status = "exit"
  /\ Last.op = "realloc" /\ Last.size = 4000
  /\ Last.ptr \in DOMAIN live /\ Flag(Last.ptr) = 1

---------------------------------------------------------------------------
(* C13 *)

\* mm_init has returned 0 and nothing was called since
Initialised == phase = "run" /\ status = "ok" /\ nops = 0

---------------------------------------------------------------------------
(* C14 *)

\* the provider cannot serve both growth requests of mm_init
InitRefused ==
  ULT(SUB(mem_max_addr, mem_start_brk), 4 * WSIZE + CHUNKSIZE)

\* C14: when the provider, whose failure value is the (void *)-1 that
\* extend_heap tests for, refuses the 16-byte request or the 4096-byte
\* request of mm_init, mm_init returns -1 and has written no heap word.
C14_InitFailure ==
  (phase # "start" /\ InitRefused) =>
    /\ status = "ok"
    /\ Last.op = "init" /\ Last.ret = -1
    /\ mem = <<>>

---------------------------------------------------------------------------
(* C15: the heap checker applied to heaps of two blocks *)

\* block sizes of the heaps the checker is applied to
CheckSizes == {DSIZE + OVERHEAD, 3 * DSIZE}

\* a tag of size bytes with its allocated flag, right or flipped
Tags(size) == {PACK(size, 0), PACK(size, 1)}

\* the words of a heap whose prologue block pointer is pro: prologue tags
\* ph, pf, two blocks with headers h1, h2 and footers f1, f2, epilogue ep
HeapWords(pro, ph, pf, h1, f1, h2, f2, ep) ==
  (HDRP(pro) :> ph) @@ (pro :> pf)
  @@ (ADD(pro, WSIZE) :> h1)
  @@ (ADD(pro, SizeBits(h1)) :> f1)
  @@ (ADD(pro, SizeBits(h1) + WSIZE) :> h2)
  @@ (ADD(pro, SizeBits(h1) + SizeBits(h2)) :> f2)
  @@ (ADD(pro, SizeBits(h1) + SizeBits(h2) + WSIZE) :> ep)

InitCheck ==
  /\ \E pro \in {ADD(mem_start_brk, DSIZE), ADD(mem_start_brk, DSIZE + WSIZE)},
        ph, pf \in Tags(OVERHEAD), ep \in Tags(0), s1, s2 \in CheckSizes :
       \E h1, f1 \in Tags(s1), h2, f2 \in Tags(s2) :
         /\ mem = HeapWords(pro, ph, pf, h1, f1, h2, f2, ep)
         /\ p_heap_list = pro
         /\ mem_brk = ADD(pro, s1 + s2 + DSIZE)
  /\ mem_max_addr = ADD(mem_start_brk, MAX_HEAP)
  /\ mp_firstfreeblock = NULL
  /\ m_freecount = 0
  /\ status = "ok"
  /\ phase = "check"
  /\ live = <<>>
  /\ wr = {}
  /\ hist = <<>>
  /\ nops = 0
  /\ nwrites = 0
  /\ trio = <<>>

DoCheckheap(verbose) ==
  /\ phase = "check"
  /\ LET r == mm_checkheap(Cur, verbose)
     IN  /\ Install(r.st)
         /\ Remember([Entry("checkheap", 0, NULL, NULL, "", 0)
                        EXCEPT !.out = r.out])
  /\ phase' = "checked"
  /\ nops' = nops + 1
  /\ UNCHANGED <<live, nwrites, trio>>

NextCheck == \E verbose \in BOOLEAN : DoCheckheap(verbose)

SpecCheck == InitCheck /\ [][NextCheck]_vars

\* the step is a call of mm_checkheap
CheckStep == nops' # nops /\ Last'.op = "checkheap"

\* user blocks of the header scan
UserBlocks == {i \in 1..Len(HeapScan) : i > 1 /\ GET_SIZE(Cur, HDRP(HeapScan[i])) # 0}

\* the prologue or the epilogue is misshapen, a block's header differs
\* from its footer, or a block address is not a multiple of 8
Misshapen ==
  \/ GET(Cur, HDRP(p_heap_list)) # PACK(OVERHEAD, 1)
  \/ GET(Cur, p_heap_list) # PACK(OVERHEAD, 1)
  \/ GET(Cur, HDRP(HeapScan[Len(HeapScan)])) # PACK(0, 1)
  \/ \E i \in UserBlocks :
       GET(Cur, HDRP(HeapScan[i])) # GET(Cur, FTRP(Cur, HeapScan[i]))
  \/ \E i \in 1..Len(HeapScan) : HeapScan[i] % DSIZE # 0

\* two physically adjacent blocks are both free
AdjacentFree ==
  \E i \in UserBlocks :
    i + 1 \in UserBlocks /\ Flag(HeapScan[i]) = 0 /\ Flag(HeapScan[i + 1]) = 0

\* mm_checkheap changed no heap word and no allocator variable
ReadOnly ==
  /\ status' = "ok" /\ HeapUnchanged
  /\ mem_brk' = mem_brk /\ p_heap_list' = p_heap_list

\* C15: mm_checkheap changes no heap word and no allocator variable, and
\* it prints a complaint for every heap in which the prologue or epilogue
\* is misshapen, a block's header differs from its footer, a block
\* address is not a multiple of 8, or two adjacent blocks are both free.
C15_Checkheap ==
  [][CheckStep =>
       (ReadOnly /\ ((Misshapen \/ AdjacentFree) => Last'.out # {}))]_vars

\* C15 as the code has it: mm_checkheap changes nothing, complains about
\* every heap with a misshapen prologue or epilogue, a header that differs
\* from its footer or a misaligned block, and is silent about a heap whose
\* only fault is two adjacent free blocks.
C15_CheckheapAmended ==
  [][CheckStep =>
       (ReadOnly /\ (Misshapen <=> Last'.out # {}))]_vars

\* mm_checkheap has run on a heap with two adjacent free blocks and no
\* other fault, and on nothing else to complain about
C15_Witness ==
  /\ phase = "checked" /\ status = "ok"
  /\ AdjacentFree /\ ~Misshapen /\ Last.out = {}

---------------------------------------------------------------------------
(* C16 *)

\* adjusted sizes find_fit is asked for
FitSizes == {0, DSIZE, DSIZE + OVERHEAD, 104, 1008, 4008}

\* positions of the free list whose block has at least asize bytes
Fitting(asize) ==
  {j \in 1..Len(FreeList) : ULE(asize, GET_SIZE(Cur, HDRP(FreeList[j])))}

\* the first block in link order with at least asize bytes, or NULL
FirstFit(asize) ==
  IF Fitting(asize) = {} THEN NULL
  ELSE FreeList[CHOOSE j \in Fitting(asize) :
                  \A k \in Fitting(asize) : j <= k]

\* C16: find_fit(asize) returns the first block in successor-link order
\* from the free-list head whose header size is at least asize, returns
\* NULL exactly when the list has no such block, and changes no state.
C16_FirstFit ==
  Quiescent =>
    \A asize \in FitSizes :
      /\ find_fit(Cur, asize).st = Cur
      /\ find_fit(Cur, asize).ret = FirstFit(asize)

\* the free list holds a block too small for a request and a later one
\* that fits it
C16_Witness ==
  /\ Quiescent /\ Len(FreeList) >= 2
  /\ \E asize \in FitSizes :
       /\ FirstFit(asize) # NULL
       /\ FirstFit(asize) # FreeList[1]
       /\ find_fit(Cur, asize).ret = FirstFit(asize)
  /\ \E asize \in FitSizes : find_fit(Cur, asize).ret = NULL

---------------------------------------------------------------------------
(* C17 *)

\* the blocks of list other than block_ptr, in order
Unlinked(list, block_ptr) == SelectSeq(list, LAMBDA b : b # block_ptr)

\* header and footer of the block of the given size at block_ptr
TagsAt(s, block_ptr, size) ==
  <<GET(s, HDRP(block_ptr)), GET(s, SUB(ADD(block_ptr, size), DSIZE))>>

\* the adjusted sizes mm_malloc passes to place
PlaceSizes ==
  {mm_malloc_asize(size) : size \in (MallocSizes \cup ReallocSizes) \ {0}}

\* place found the block split: an allocated block of asize bytes, then a
\* free block of the rest at the head of the list
PlacedSplit(t, block_ptr, asize, csize) ==
  /\ TagsAt(t, block_ptr, asize) = <<PACK(asize, 1), PACK(asize, 1)>>
  /\ TagsAt(t, ADD(block_ptr, asize), SUB(csize, asize))
       = <<PACK(SUB(csize, asize), 0), PACK(SUB(csize, asize), 0)>>
  /\ FreeListIn(t)
       = <<ADD(block_ptr, asize)>> \o Unlinked(FreeList, block_ptr)

\* place left the block whole and allocated
PlacedWhole(t, block_ptr, csize) ==
  /\ TagsAt(t, block_ptr, csize) = <<PACK(csize, 1), PACK(csize, 1)>>
  /\ FreeListIn(t) = Unlinked(FreeList, block_ptr)

\* place(block_ptr, asize) in the current state does what C17 says
PlacedRight(block_ptr, asize, csize) ==
  /\ place(Cur, block_ptr, asize).status = "ok"
  /\ FreeListIn(allocate_block(Cur, block_ptr)) = Unlinked(FreeList, block_ptr)
  /\ TagsAt(allocate_block(Cur, block_ptr), block_ptr, csize)
       = TagsAt(Cur, block_ptr, csize)
  /\ IF ULE(DSIZE + OVERHEAD, SUB(csize, asize))
     THEN PlacedSplit(place(Cur, block_ptr, asize), block_ptr, asize, csize)
     ELSE PlacedWhole(place(Cur, block_ptr, asize), block_ptr, csize)
  /\ \A a \in DOMAIN mem :
       ULE(SUB(csize, WSIZE), SUB(a, block_ptr)) /\ a # HDRP(block_ptr)
         /\ (\A k \in 1..Len(FreeList) :
                a # PRE_PTR(FreeList[k]) /\ a # SUC_PTR(FreeList[k]))
       => place(Cur, block_ptr, asize).mem[a] = mem[a]

\* C17: place(block, asize) on a free-list member of size csize >= asize
\* first removes block from the free list; then if csize - asize >= 16 the
\* first asize bytes are an allocated block (header and footer), the other
\* csize - asize bytes are one free block (header and footer) that is the
\* new list head; otherwise the whole block is allocated at size csize and
\* nothing is inserted.  The two blocks cover the bytes of the original
\* block exactly and no tag outside it changes.
C17_Place ==
  Quiescent =>
    \A j \in 1..Len(FreeList) : \A asize \in PlaceSizes :
      ULE(asize, GET_SIZE(Cur, HDRP(FreeList[j])))
        => PlacedRight(FreeList[j], asize, GET_SIZE(Cur, HDRP(FreeList[j])))

\* both branches of place happen on a list of two or more blocks, one of
\* them on a block that is not the head
C17_Witness ==
  /\ Quiescent /\ Len(FreeList) >= 2
  /\ \E asize \in PlaceSizes :
       /\ ULE(asize, GET_SIZE(Cur, HDRP(FreeList[2])))
       /\ ~ULE(DSIZE + OVERHEAD, SUB(GET_SIZE(Cur, HDRP(FreeList[2])), asize))
       /\ PlacedRight(FreeList[2], asize, GET_SIZE(Cur, HDRP(FreeList[2])))
  /\ \E asize \in PlaceSizes :
       /\ ULE(DSIZE + OVERHEAD, SUB(GET_SIZE(Cur, HDRP(FreeList[1])), asize))
       /\ ULE(asize, GET_SIZE(Cur, HDRP(FreeList[1])))
       /\ PlacedRight(FreeList[1], asize, GET_SIZE(Cur, HDRP(FreeList[1])))

---------------------------------------------------------------------------
(* C18 *)

\* size of the block HeapScan[i] if its header has flag 0, else 0
FreeSizeAt(i) ==
  IF Flag(HeapScan[i]) = 0 THEN GET_SIZE(Cur, HDRP(HeapScan[i])) ELSE 0

\* the address C18 names for coalesce of HeapScan[i]
MergedAt(i) ==
  IF Flag(HeapScan[i - 1]) = 0 THEN HeapScan[i - 1] ELSE HeapScan[i]

\* the size C18 names for coalesce of HeapScan[i], whose own size is size
MergedSize(i, size) == ADD(size, ADD(FreeSizeAt(i - 1), FreeSizeAt(i + 1)))

\* allocator state s with an empty free list
Listless(s) == [s EXCEPT !.mp_firstfreeblock = NULL, !.m_freecount = 0]

\* c = [st, ret] is what C18 says of coalesce(HeapScan[i])
CoalescedRight(c, i, size) ==
  /\ c.st.status = "ok"
  /\ c.ret = MergedAt(i)
  /\ TagsAt(c.st, c.ret, MergedSize(i, size))
       = <<PACK(MergedSize(i, size), 0), PACK(MergedSize(i, size), 0)>>

\* positions in the header scan of the blocks the caller holds
LiveAt == {i \in 2..(Len(HeapScan) - 1) : HeapScan[i] \in DOMAIN live}

\* the sizes by which the heap is grown
GrowWords == {CHUNKSIZE \div WSIZE, 1002}

\* the heap scan after extend_heap has laid out its new block and epilogue
\* at the old break: the old epilogue is the new block
GrownRight(words) ==
  extend_heap(Cur, words).ret # NULL =>
    /\ extend_heap(Cur, words).st.status = "ok"
    /\ extend_heap(Cur, words).ret
         = (IF Flag(HeapScan[Len(HeapScan) - 1]) = 0
            THEN HeapScan[Len(HeapScan) - 1] ELSE mem_brk)
    /\ TagsAt(extend_heap(Cur, words).st, extend_heap(Cur, words).ret,
              ADD(extend_heap_size(words), FreeSizeAt(Len(HeapScan) - 1)))
         = <<PACK(ADD(extend_heap_size(words),
                      FreeSizeAt(Len(HeapScan) - 1)), 0),
             PACK(ADD(extend_heap_size(words),
                      FreeSizeAt(Len(HeapScan) - 1)), 0)>>

\* C18: coalesce(block) returns a free block at the previous block's
\* address when the previous physical neighbour was free and at block's
\* own address otherwise; its header and footer both hold the sum of the
\* sizes of block and of every free physical neighbour with flag 0; the
\* flags come from the boundary tags alone: the result is the same when
\* the free list is empty.
C18_Coalesce ==
  Quiescent =>
    /\ \A p \in DOMAIN live : \E i \in LiveAt : HeapScan[i] = p
    /\ \A i \in LiveAt :
         /\ CoalescedRight(coalesce(mm_free_tags(Cur, HeapScan[i]), HeapScan[i]),
                           i, GET_SIZE(Cur, HDRP(HeapScan[i])))
         /\ CoalescedRight(coalesce(Listless(mm_free_tags(Cur, HeapScan[i])),
                                    HeapScan[i]),
                           i, GET_SIZE(Cur, HDRP(HeapScan[i])))
    /\ \A words \in GrowWords : GrownRight(words)

\* a live block between two free blocks, and a heap that ends in a free
\* block and can still grow
C18_Witness ==
  /\ Quiescent
  /\ \E i \in LiveAt :
       /\ Flag(HeapScan[i - 1]) = 0 /\ Flag(HeapScan[i + 1]) = 0
       /\ CoalescedRight(coalesce(mm_free_tags(Cur, HeapScan[i]), HeapScan[i]),
                         i, GET_SIZE(Cur, HDRP(HeapScan[i])))
  /\ Flag(HeapScan[Len(HeapScan) - 1]) = 0
  /\ \E words \in GrowWords :
       extend_heap(Cur, words).ret = HeapScan[Len(HeapScan) - 1]

---------------------------------------------------------------------------
(* C19 *)

\* the calls of free_block and allocate_block among the events, in order
ListOps(events) ==
  SelectSeq(events, LAMBDA e : e.op \in {"free_block", "allocate_block"})

\* the events hold exactly one free_block, it is on block_ptr and no list
\* operation comes after it
OneInsertLast(events, block_ptr) ==
  /\ ListOps(events) # <<>>
  /\ ListOps(events)[Len(ListOps(events))]
       = [op |-> "free_block", at |-> {block_ptr}]
  /\ \A k \in 1..(Len(ListOps(events)) - 1) :
       ListOps(events)[k].op # "free_block"

\* after mm_free(HeapScan[i]) the list head is the merged free block, and
\* HeapScan[i] lies in it
HeadIsMerged(t, i) ==
  /\ t.status = "ok"
  /\ t.mp_firstfreeblock = MergedAt(i)
  /\ GET_ALLOC(t, HDRP(MergedAt(i))) = 0
  /\ ULT(SUB(HeapScan[i], MergedAt(i)), GET_SIZE(t, HDRP(MergedAt(i))))

\* C19: every call of coalesce, from mm_free and from extend_heap, makes
\* exactly one call of free_block, on the final merged block, and makes no
\* list operation after it; when mm_free(p) returns the head of the free
\* list is the merged free block that contains p.
C19_OneInsert ==
  Quiescent =>
    /\ \A i \in LiveAt :
         /\ OneInsertLast(mm_free(Cur, HeapScan[i]).log, MergedAt(i))
         /\ HeadIsMerged(mm_free(Cur, HeapScan[i]), i)
    /\ \A words \in GrowWords :
         extend_heap(Cur, words).ret # NULL =>
           OneInsertLast(extend_heap(Cur, words).st.log,
                         extend_heap(Cur, words).ret)

\* a live block between two free blocks: mm_free removes both neighbours
\* and then inserts the merged block
C19_Witness ==
  /\ Quiescent
  /\ \E i \in LiveAt :
       /\ Flag(HeapScan[i - 1]) = 0 /\ Flag(HeapScan[i + 1]) = 0
       /\ Len(ListOps(mm_free(Cur, HeapScan[i]).log)) = 3
       /\ OneInsertLast(mm_free(Cur, HeapScan[i]).log, HeapScan[i - 1])
       /\ HeadIsMerged(mm_free(Cur, HeapScan[i]), i)

---------------------------------------------------------------------------
(* C20 *)

\* the events of coalesce(block_ptr) called in allocator state s
CoalesceEvents(s, block_ptr) ==
  SubSeq(coalesce(s, block_ptr).st.log, Len(s.log) + 1,
         Len(coalesce(s, block_ptr).st.log))

\* addresses of the header and footer of the block of the given size
BlockTags(block_ptr, size) == {HDRP(block_ptr), SUB(ADD(block_ptr, size), DSIZE)}

\* the free physical neighbours of HeapScan[i]
FreeNeighbours(i) == {HeapScan[k] : k \in {j \in {i - 1, i + 1} : Flag(HeapScan[j]) = 0}}

\* the tag words of HeapScan[i] and of its free neighbours
SpanTags(i) ==
  UNION {BlockTags(b, GET_SIZE(Cur, HDRP(b))) :
           b \in FreeNeighbours(i) \cup {HeapScan[i]}}

\* the link slots of the blocks nbs
LinkSlots(nbs) == UNION {{PRE_PTR(b), SUC_PTR(b)} : b \in nbs}

\* event t overwrites one of the words tags
TagWrite(events, t, tags) ==
  events[t].op = "PUT" /\ events[t].at \cap tags # {}

\* every block of nbs is removed from the list, every removal comes before
\* every write of a word of tags, and no read after such a write touches a
\* link slot of nbs
OrderedMerge(events, tags, nbs) ==
  /\ \E t \in 1..Len(events) : TagWrite(events, t, tags)
  /\ \A b \in nbs : \E k \in 1..Len(events) :
       events[k] = [op |-> "allocate_block", at |-> {b}]
  /\ \A t, k \in 1..Len(events) :
       TagWrite(events, t, tags) /\ events[k].op = "allocate_block" => k < t
  /\ \A t, k \in 1..Len(events) :
       TagWrite(events, t, tags) /\ events[k].op = "GET" /\ t < k
         => events[k].at \cap LinkSlots(nbs) = {}

\* the events of the coalesce call in extend_heap(words), which come after
\* the request to the provider and the three words extend_heap writes
GrownEvents(words) ==
  SubSeq(extend_heap(Cur, words).st.log, 5, Len(extend_heap(Cur, words).st.log))

---------------------------------------------------------------------------
(* C21 *)

\* the sizes asked of the provider among the events, in order
Requests(events) == SelectSeq(events, LAMBDA e : e.op = "mem_sbrk")

\* a step that is a call of a public function
CallStep ==
  /\ nops' # nops \/ phase' # phase
  /\ Last'.op \in {"init", "malloc", "free", "realloc"}

\* the events of the call that makes the step
StepEvents ==
  IF Last'.op = "init" THEN mm_init(Cur).st.log
  ELSE IF Last'.op = "malloc" THEN mm_malloc(Cur, Last'.size).st.log
  ELSE IF Last'.op = "realloc"
  THEN mm_realloc(Cur, Last'.ptr, Last'.size).st.log
  ELSE mm_free(Cur, Last'.ptr).log

\* the requests rq are those of one mm_malloc(size): none, or one made
\* after find_fit returned NULL, for MAX(asize, CHUNKSIZE) bytes
GrowthPolicy(rq, asize) ==
  /\ Len(rq) <= 1
  /\ Len(rq) = 1 =>
       /\ find_fit(Cur, asize).ret = NULL
       /\ rq[1].at = {MAX(asize, CHUNKSIZE)}
       /\ \A n \in rq[1].at : ULE(CHUNKSIZE, n) /\ ULE(asize, n)

\* C21 as stated: mm_malloc asks the provider to grow only when find_fit
\* returned none, at most once per call and for exactly max(asize, 4096)
\* bytes; every request made to the provider, by any public function, is
\* at least 4096 bytes; the break never decreases.
C21_Growth ==
  [][CallStep =>
       /\ Last'.op \in {"malloc", "realloc"} =>
            GrowthPolicy(Requests(StepEvents), mm_malloc_asize(Last'.size))
       /\ \A k \in 1..Len(Requests(StepEvents)) :
            \A n \in Requests(StepEvents)[k].at : ULE(CHUNKSIZE, n)
       /\ ULE(SUB(mem_brk, mem_start_brk), SUB(mem_brk', mem_start_brk))]_vars

\* C21 amended: as C21_Growth for the requests of mm_malloc, made directly
\* or from mm_realloc; mm_init asks the provider twice, first for the
\* 16 bytes of padding, prologue and epilogue and then for 4096 bytes.
C21_GrowthAmended ==
  [][CallStep =>
       /\ Last'.op \in {"malloc", "realloc"} =>
            GrowthPolicy(Requests(StepEvents), mm_malloc_asize(Last'.size))
       /\ Last'.op = "init" =>
            /\ Len(Requests(StepEvents)) \in {1, 2}
            /\ Requests(StepEvents)[1].at = {4 * WSIZE}
            /\ Len(Requests(StepEvents)) = 2 =>
                 Requests(StepEvents)[2].at = {CHUNKSIZE}
       /\ Last'.op = "free" => Requests(StepEvents) = <<>>
       /\ ULE(SUB(mem_brk, mem_start_brk), SUB(mem_brk', mem_start_brk))]_vars

\* mm_malloc found no fit and grew the heap by 4096 bytes
C21_Witness ==
  /\ Quiescent /\ Last.op = "malloc" /\ Last.how = "grown"
  /\ Last.ret # NULL
  /\ mem_brk = ADD(Last.brk0, CHUNKSIZE)

---------------------------------------------------------------------------
(* C22 *)

\* the bytes mm_malloc asks of the provider for a request of size bytes
GrowthBytes(size) ==
  extend_heap_size(UDIV(MAX(mm_malloc_asize(size), CHUNKSIZE), WSIZE))

\* extend_heap as mm_malloc(size) calls it after find_fit returned NULL
GrowthOf(size) ==
  extend_heap(find_fit(Cur, mm_malloc_asize(size)).st,
              UDIV(MAX(mm_malloc_asize(size), CHUNKSIZE), WSIZE))

\* the block that ends at the epilogue, found from its footer
TopBlock == PREV_BLKP(Cur, mem_brk)

\* its size if its header has flag 0, else 0
TopFree == IF Flag(TopBlock) = 0 THEN GET_SIZE(Cur, HDRP(TopBlock)) ELSE 0

\* e = [st, ret] is the heap grown by bytes: one free block from the old
\* epilogue on, merged with the top block if that is free, in the free
\* list, and a new epilogue header at the new break
GrownWell(e, bytes) ==
  /\ e.st.status = "ok"
  /\ e.st.mem_brk = ADD(mem_brk, bytes)
  /\ e.ret = (IF Flag(TopBlock) = 0 THEN TopBlock ELSE mem_brk)
  /\ TagsAt(e.st, e.ret, ADD(bytes, TopFree))
       = <<PACK(ADD(bytes, TopFree), 0), PACK(ADD(bytes, TopFree), 0)>>
  /\ NEXT_BLKP(e.st, e.ret) = e.st.mem_brk
  /\ GET(e.st, HDRP(e.st.mem_brk)) = PACK(0, 1)
  /\ \E j \in 1..Len(FreeListIn(e.st)) : FreeListIn(e.st)[j] = e.ret

\* m = [st, ret, how] is mm_malloc's result after the growth e: the grown
\* block had asize bytes or more, was placed and is returned
PlacedAfterGrowth(m, e, asize) ==
  /\ ULE(asize, GET_SIZE(e.st, HDRP(e.ret)))
  /\ m.st.status = "ok" /\ m.how = "grown"
  /\ m.ret = e.ret
  /\ GET_ALLOC(m.st, HDRP(m.ret)) = 1
  /\ ULE(asize, GET_SIZE(m.st, HDRP(m.ret)))
  /\ \A j \in 1..Len(FreeListIn(m.st)) : FreeListIn(m.st)[j] # m.ret

\* C22: when mm_malloc finds no fit and the provider grants the growth,
\* the new region is one free block, merged with the block that ended at
\* the old epilogue when that block is free, a new allocated zero-size
\* epilogue header is at the new top, the block handed to place is a
\* free-list member of at least asize bytes, and mm_malloc returns its
\* address with the block allocated.
C22_GrowAndPlace ==
  Quiescent =>
    \A size \in MallocSizes :
      (~ULE(size, 0) /\ NoFit(size) /\ ~ProviderRefuses(size)) =>
        /\ GrownWell(GrowthOf(size), GrowthBytes(size))
        /\ PlacedAfterGrowth(mm_malloc(Cur, size), GrowthOf(size),
                             mm_malloc_asize(size))

\* a request that no block fits while the heap ends in a free block and
\* the provider has room
C22_Witness ==
  /\ Quiescent /\ Flag(TopBlock) = 0
  /\ \E size \in MallocSizes :
       /\ ~ULE(size, 0) /\ NoFit(size) /\ ~ProviderRefuses(size)
       /\ GrowthOf(size).ret = TopBlock
       /\ PlacedAfterGrowth(mm_malloc(Cur, size), GrowthOf(size),
                            mm_malloc_asize(size))

---------------------------------------------------------------------------
(* C23 *)

\* the successor walk list from the head of allocator state s is a doubly
\* linked list: every link can be read, the head has no predecessor, the
\* walk ends on a block with no successor (so no block comes twice), and
\* each block is the predecessor of its successor
Linked(s, list) ==
  /\ \A j \in 1..Len(list) :
       Readable(s, PRE_PTR(list[j])) /\ Readable(s, SUC_PTR(list[j]))
  /\ list # <<>> =>
       PREV(s, list[1]) = NULL /\ SUCC(s, list[Len(list)]) = NULL
  /\ \A j \in 1..(Len(list) - 1) :
       SUCC(s, list[j]) = list[j + 1] /\ PREV(s, list[j + 1]) = list[j]

\* blocks of allocator state s with allocated flag 0, by header scan from
\* the first block after the prologue
RECURSIVE FreeBlocksIn(_, _, _)
FreeBlocksIn(s, block_ptr, seen) ==
  IF block_ptr \in seen \/ ~Readable(s, HDRP(block_ptr)) THEN {}
  ELSE IF GET_SIZE(s, HDRP(block_ptr)) = 0 THEN {}
  ELSE (IF GET_ALLOC(s, HDRP(block_ptr)) = 0 THEN {block_ptr} ELSE {})
         \cup FreeBlocksIn(s, NEXT_BLKP(s, block_ptr), seen \cup {block_ptr})

\* the free list of allocator state s is well formed, and its head is NULL
\* when the heap has no free block
WellFormedList(s) ==
  /\ Linked(s, FreeListIn(s))
  /\ FreeBlocksIn(s, s.p_heap_list, {}) = {} => s.mp_firstfreeblock = NULL

\* request sizes that fit a block of the free list exactly
ExactSizes == {SUB(GET_SIZE(Cur, HDRP(FreeList[j])), OVERHEAD) : j \in 1..Len(FreeList)}

\* C23: after any sequence of public operations, and after one more
\* mm_malloc that takes a whole free block, the free list is a correct
\* doubly linked structure: the head's predecessor is null, the tail's
\* successor is null, each node is the predecessor of its successor and
\* the successor of its predecessor, no node occurs twice, and a heap with
\* no free block has a null head.
C23_ListWellFormed ==
  Quiescent =>
    /\ WellFormedList(Cur)
    /\ \A size \in ExactSizes :
         /\ mm_malloc(Cur, size).st.status = "ok"
         /\ WellFormedList(mm_malloc(Cur, size).st)

\* a list of two or more blocks, and a request that takes the only other
\* free block whole
C23_Witness ==
  /\ Quiescent /\ Len(FreeList) >= 2
  /\ PREV(Cur, FreeList[2]) = FreeList[1]
  /\ \E size \in ExactSizes :
       /\ Len(FreeListIn(mm_malloc(Cur, size).st)) = Len(FreeList) - 1
       /\ WellFormedList(mm_malloc(Cur, size).st)

---------------------------------------------------------------------------
(* C24 *)

\* positions in the header scan of the blocks between prologue and epilogue
UserAt == 2..(Len(HeapScan) - 1)

\* the scan starts right after the prologue and ends on the epilogue
\* header, the last word below the break
Tiled ==
  /\ Len(HeapScan) >= 2
  /\ HeapScan[1] = p_heap_list
  /\ HeapScan[2] = NEXT_BLKP(Cur, p_heap_list)
  /\ HeapScan[Len(HeapScan)] = mem_brk
  /\ GET_SIZE(Cur, HDRP(mem_brk)) = 0
  /\ \A i \in 1..(Len(HeapScan) - 1) :
       HeapScan[i + 1] = ADD(HeapScan[i], GET_SIZE(Cur, HDRP(HeapScan[i])))

\* the block's link slots lie between its header and its footer
HoldsLinks(block_ptr) ==
  /\ ULT(SUB(PRE_PTR(block_ptr), HDRP(block_ptr)),
         SUB(FTRP(Cur, block_ptr), HDRP(block_ptr)))
  /\ ULT(SUB(SUC_PTR(block_ptr), HDRP(block_ptr)),
         SUB(FTRP(Cur, block_ptr), HDRP(block_ptr)))
  /\ PRE_PTR(block_ptr) # HDRP(block_ptr)
  /\ SUC_PTR(block_ptr) # HDRP(block_ptr)

\* C24: in every quiescent state the walk by header sizes from the first
\* block after the prologue tiles the heap and ends on the epilogue header
\* at the last word below the break; every block's size is a multiple of 8
\* and at least 16, so its two link slots lie between its header and its
\* footer.
C24_Tiling ==
  Quiescent =>
    /\ Tiled
    /\ \A i \in UserAt :
         /\ GET_SIZE(Cur, HDRP(HeapScan[i])) % DSIZE = 0
         /\ ULE(DSIZE + OVERHEAD, GET_SIZE(Cur, HDRP(HeapScan[i])))
         /\ HoldsLinks(HeapScan[i])

\* three or more blocks, one of them of the minimum size
C24_Witness ==
  /\ Quiescent /\ Tiled /\ Len(HeapScan) >= 5
  /\ \E i \in UserAt : GET_SIZE(Cur, HDRP(HeapScan[i])) = DSIZE + OVERHEAD
  /\ \A i \in UserAt : HoldsLinks(HeapScan[i])

---------------------------------------------------------------------------
(* C25 *)

\* header and footer of the block hold the same word
TagsAgree(block_ptr) ==
  /\ Readable(Cur, HDRP(block_ptr)) /\ Readable(Cur, FTRP(Cur, block_ptr))
  /\ GET(Cur, HDRP(block_ptr)) = GET(Cur, FTRP(Cur, block_ptr))

\* C25: in every quiescent state, callers having stored only inside the
\* payloads they asked for, every block of the heap, free or allocated,
\* the prologue included, has a footer word equal to its header word, and
\* mm_checkheap does not print 'header does not match footer'.
C25_Redundancy ==
  Quiescent =>
    /\ \A i \in 1..(Len(HeapScan) - 1) : TagsAgree(HeapScan[i])
    /\ mm_checkheap(Cur, FALSE).st.status = "ok"
    /\ "Error: header does not match footer" \notin mm_checkheap(Cur, FALSE).out

\* free and allocated blocks after a caller has stored into a payload
C25_Witness ==
  /\ Quiescent /\ nwrites >= 1 /\ Len(HeapScan) >= 5
  /\ \E i \in UserAt : Flag(HeapScan[i]) = 0
  /\ \E i \in UserAt : Flag(HeapScan[i]) = 1
  /\ \A i \in 1..(Len(HeapScan) - 1) : TagsAgree(HeapScan[i])
  /\ mm_checkheap(Cur, FALSE).out = {}

---------------------------------------------------------------------------
(* C26 *)

\* the lowest block is the prologue mm_init wrote, a header and a footer
\* with no payload, and the word below the break is the epilogue header
SentinelsInPlace ==
  /\ GET(Cur, HDRP(p_heap_list)) = PACK(OVERHEAD, 1)
  /\ GET(Cur, FTRP(Cur, p_heap_list)) = PACK(OVERHEAD, 1)
  /\ p_heap_list = ADD(mem_start_brk, DSIZE)
  /\ GET(Cur, HDRP(mem_brk)) = PACK(0, 1)

\* no free block, by its header, reaches below the end of the prologue or
\* beyond the epilogue header
SentinelsApart ==
  \A b \in FreeByHeader :
    /\ ULE(SUB(ADD(p_heap_list, DSIZE), mem_start_brk), SUB(b, mem_start_brk))
    /\ ULE(GET_SIZE(Cur, HDRP(b)), SUB(mem_brk, b))

\* C26: in every state between public operations the lowest block of the
\* heap is the allocated prologue with no payload and the highest word is
\* the zero-size allocated epilogue header; neither is in the free list,
\* inside the span of a free block, or the address mm_malloc returned.
C26_Sentinels ==
  Quiescent =>
    /\ SentinelsInPlace
    /\ \A j \in 1..Len(FreeList) :
         FreeList[j] # p_heap_list /\ FreeList[j] # mem_brk
    /\ SentinelsApart
    /\ Last.op \in {"malloc", "realloc"} =>
         Last.ret # p_heap_list /\ Last.ret # mem_brk

\* the heap has grown, so the epilogue has moved, and the blocks next to
\* the prologue and next to the epilogue are free
C26_Witness ==
  /\ Quiescent /\ SentinelsInPlace /\ SentinelsApart
  /\ Len(HeapScan) >= 4
  /\ mem_brk = ADD(mem_start_brk, 4 * WSIZE + 2 * CHUNKSIZE)
  /\ Flag(HeapScan[2]) = 0
  /\ Flag(PREV_BLKP(Cur, mem_brk)) = 0

---------------------------------------------------------------------------
(* C27 *)

\* a step that is a call of mm_malloc, mm_free or mm_realloc
AllocatorStep ==
  nops' # nops /\ Last'.op \in {"malloc", "free", "realloc"}

\* the step leaves the block at p as it was: same header word, same
\* footer word at the same place, allocated flag 1
Framed(p) ==
  /\ Readable(Cur, HDRP(p)) /\ Readable(Cur, FTRP(Cur, p))
  /\ GET_ALLOC(Cur, HDRP(p)) = 1
  /\ mem'[HDRP(p)] = mem[HDRP(p)]
  /\ mem'[FTRP(Cur, p)] = mem[FTRP(Cur, p)]

\* C27: between the mm_malloc that returned p and the mm_free or
\* mm_realloc of p, no mm_malloc, mm_free or mm_realloc on other addresses,
\* with the heap growth they cause, changes the header word, the footer
\* word or the size of p's block; its allocated flag stays 1 and p stays
\* the caller's address.
C27_LiveFrame ==
  [][AllocatorStep =>
       /\ status' \in {"ok", "exit"}
       /\ \A p \in (DOMAIN live) \ {Last'.ptr} :
            p \in DOMAIN live' /\ Framed(p)]_vars

\* mm_free has just freed the block before a live block, whose tags are
\* as they were
C27_Witness ==
  /\ Quiescent /\ Last.op = "free"
  /\ \E p \in DOMAIN live :
       /\ Flag(p) = 1
       /\ PREV_BLKP(Cur, p) = Last.ptr
       /\ Flag(Last.ptr) = 0
       /\ GET_SIZE(Cur, HDRP(p)) = GET_SIZE(Cur, FTRP(Cur, p))

---------------------------------------------------------------------------
(* C28 *)

\* m_freecount, the length of the free list and the number of blocks a
\* header scan finds with allocated flag 0 are one number
CountsAgree ==
  /\ m_freecount = Len(FreeList)
  /\ m_freecount = Cardinality(FreeByHeader)

\* in the events of one call no allocate_block took its count -1 branch,
\* and each allocate_block took its count 0 branch exactly when the block
\* it removed was the only member of the list it was called on
CountedRight(events) ==
  /\ \A k \in 1..Len(events) : events[k].op # "SHOULD NOT HAPPEN"
  /\ \A k \in 2..Len(events) :
       events[k].op = "allocate_block" =>
         /\ events[k - 1].op = "members"
         /\ (k < Len(events) /\ events[k + 1].op = "sole")
              <=> (events[k - 1].at = events[k].at)

\* C28: in every quiescent state m_freecount equals the number of blocks
\* in the free list and the number of blocks with allocated flag 0 that a
\* header scan finds; in every call of mm_malloc, mm_free and mm_realloc
\* from such a state m_freecount does not go below 0, so allocate_block
\* never takes its count -1 branch, and allocate_block takes its count 0
\* branch exactly when the block it removes is the only list member.
C28_FreeCount ==
  Quiescent =>
    /\ CountsAgree
    /\ \A size \in MallocSizes :
         /\ CountedRight(mm_malloc(Cur, size).st.log)
         /\ mm_malloc(Cur, size).st.m_freecount >= 0
    /\ \A ptr \in DOMAIN live :
         /\ CountedRight(mm_free(Cur, ptr).log)
         /\ mm_free(Cur, ptr).m_freecount >= 0
         /\ \A size \in ReallocSizes :
              /\ CountedRight(mm_realloc(Cur, ptr, size).st.log)
              /\ mm_realloc(Cur, ptr, size).st.m_freecount >= 0

\* a quiescent state with two free blocks, from which mm_malloc removes
\* the list head by allocate_block while another block stays in the list
C28_Witness ==
  /\ Quiescent /\ m_freecount = 2 /\ Len(FreeList) = 2
  /\ \E k \in 2..Len(mm_malloc(Cur, 1).st.log) :
       /\ mm_malloc(Cur, 1).st.log[k].op = "allocate_block"
       /\ mm_malloc(Cur, 1).st.log[k - 1].at # mm_malloc(Cur, 1).st.log[k].at

---------------------------------------------------------------------------
(* C29 *)

RECURSIVE find_fit_run(_, _, _, _)
\* how the for loop of find_fit runs from block_ptr on: n counts the times
\* its update block_ptr = SUCC(block_ptr) runs, end tells what ends it: the
\* guard m_freecount >= 0, the null test, a fitting block, a read outside
\* the heap, or nothing (a block comes a second time)
find_fit_run(s, block_ptr, asize, seen) ==
  IF ~(s.m_freecount >= 0) THEN [n |-> 0, end |-> "guard"]
  ELSE IF block_ptr = NULL THEN [n |-> 0, end |-> "null"]
  ELSE IF block_ptr \in seen THEN [n |-> 0, end |-> "never"]
  ELSE IF ~Readable(s, HDRP(block_ptr)) THEN [n |-> 0, end |-> "undefined"]
  ELSE IF GET_ALLOC(s, HDRP(block_ptr)) = 0
          /\ ULE(asize, GET_SIZE(s, HDRP(block_ptr)))
  THEN [n |-> 0, end |-> "fit"]
  ELSE IF ~Readable(s, SUC_PTR(block_ptr)) THEN [n |-> 0, end |-> "undefined"]
  ELSE [find_fit_run(s, SUCC(s, block_ptr), asize, seen \cup {block_ptr})
          EXCEPT !.n = @ + 1]

\* the run of find_fit(asize) in the current state
FitRun(asize) == find_fit_run(Cur, mp_firstfreeblock, asize, {})

\* C29: in every quiescent state find_fit ends, for every adjusted size,
\* at a fitting block or at the null successor of the list tail, after at
\* most m_freecount updates of its block pointer, and never by its guard
\* m_freecount >= 0; and every call of mm_malloc and of mm_free on a live
\* block returns.
C29_Termination ==
  Quiescent =>
    /\ \A asize \in PlaceSizes :
         /\ FitRun(asize).end \in {"fit", "null"}
         /\ FitRun(asize).n <= m_freecount
    /\ \A size \in MallocSizes : mm_malloc(Cur, size).st.status = "ok"
    /\ \A ptr \in DOMAIN live : mm_free(Cur, ptr).status = "ok"

\* a quiescent state with two free blocks where find_fit walks the whole
\* list for one size and stops at the second block for another
C29_Witness ==
  /\ Quiescent /\ m_freecount = 2
  /\ \E asize \in PlaceSizes : FitRun(asize) = [n |-> 2, end |-> "null"]
  /\ \E asize \in PlaceSizes : FitRun(asize) = [n |-> 1, end |-> "fit"]

---------------------------------------------------------------------------
(* C30 *)

\* the provider would serve a growth of CHUNKSIZE bytes
ProviderHasMemory == mem_sbrk(Cur, CHUNKSIZE).ret # SBRK_FAILED

\* C30: mm_realloc(ptr, 0) on a live ptr does not return and does not free
\* ptr: the inner mm_malloc(0) returns NULL and mm_realloc exits the
\* process, whether or not the provider has memory; heap words, free list
\* head, free count and high-water mark are as before the call, and ptr
\* is still live.
C30_ReallocZero ==
  [][(ReallocStep /\ Last'.size = 0)
     => (/\ mm_malloc(Cur, 0).ret = NULL
         /\ status' = "exit" /\ HeapUnchanged /\ mem_brk' = mem_brk
         /\ live' = live /\ Last'.ptr \in DOMAIN live)]_vars

\* mm_realloc(ptr, 0) has ended the process although the provider would
\* still grow the heap and the free list holds a block
C30_Witness ==
  /\ phase = "run" /\ status = "exit"
  /\ Last.op = "realloc" /\ Last.size = 0
  /\ Last.ptr \in DOMAIN live /\ Flag(Last.ptr) = 1
  /\ ProviderHasMemory /\ m_freecount >= 1

---------------------------------------------------------------------------
(* C31 *)

\* the free list is doubly linked and m_freecount is its length, as
\* allocate_block takes it to be
ListCounted == Linked(Cur, FreeList) /\ m_freecount = Len(FreeList)

\* the link slots allocate_block may write when it removes FreeList[j]: the
\* two of the block, the successor slot of the member before it and the
\* predecessor slot of the member after it
RemoveSlots(j) ==
  {PRE_PTR(FreeList[j]), SUC_PTR(FreeList[j])}
    \cup (IF j > 1 THEN {SUC_PTR(FreeList[j - 1])} ELSE {})
    \cup (IF j < Len(FreeList) THEN {PRE_PTR(FreeList[j + 1])} ELSE {})

\* t is the state after allocate_block on FreeList[j]
Removed(t, j) ==
  /\ t.status = "ok"
  /\ t.m_freecount = m_freecount - 1
  /\ FreeListIn(t) = Unlinked(FreeList, FreeList[j])
  /\ Linked(t, FreeListIn(t))
  /\ Len(FreeList) = 1 => t.mp_firstfreeblock = NULL
  /\ (j = 1 /\ Len(FreeList) > 1) =>
       t.mp_firstfreeblock = FreeList[2] /\ PREV(t, FreeList[2]) = NULL
  /\ j > 1 =>
       /\ t.mp_firstfreeblock = mp_firstfreeblock
       /\ SUCC(t, FreeList[j - 1])
            = (IF j < Len(FreeList) THEN FreeList[j + 1] ELSE NULL)
       /\ j < Len(FreeList) => PREV(t, FreeList[j + 1]) = FreeList[j - 1]
  /\ PREV(t, FreeList[j]) = NULL /\ SUCC(t, FreeList[j]) = NULL
  /\ DOMAIN t.mem = DOMAIN mem
  /\ \A a \in DOMAIN mem : t.mem[a] # mem[a] => a \in RemoveSlots(j)

\* C31: allocate_block on a member of the doubly linked free list whose
\* length m_freecount holds removes it: a sole member leaves the list empty
\* with a null head; the head leaves its successor as head with a null
\* predecessor; an interior or tail member leaves its predecessor and
\* successor linked to each other; the other members keep their order and
\* every other link, and both link slots of the removed block are null.
C31_Remove ==
  (Quiescent /\ ListCounted) =>
    \A j \in 1..Len(FreeList) : Removed(allocate_block(Cur, FreeList[j]), j)

\* a quiescent state, after three requests of more than 0 bytes and two
\* calls of mm_free, whose free list has a head, an interior member and a
\* tail
C31_Witness ==
  /\ Quiescent /\ ListCounted /\ Len(FreeList) = 3
  /\ Len(trio) = 3 /\ \A k \in 1..3 : trio[k].req > 0

=============================================================================
